---- MODULE Spec2Model ----
(***************************************************************************)
(* Model of the reward bot: the user collection (models/UserModel.js), the *)
(* streak engine (db/streakLogic.js) and the chat handlers (index.js).     *)
(*                                                                         *)
(* A user document is a Mongoose document.  Only the paths declared in     *)
(* UserSchema have getters/setters: a property that the schema does not    *)
(* declare reads as undefined on a document loaded from the collection, an *)
(* assignment to it makes an ordinary JavaScript property of that one      *)
(* in-memory object, and save() / updateOne() write declared paths only    *)
(* (strict mode, the default of mongoose.Schema).  JavaScript values are   *)
(* modelled with their type, so that undefined + n = NaN and comparisons   *)
(* with undefined / NaN are false, as the engine computes them.            *)
(***************************************************************************)
EXTENDS Integers, Sequences, FiniteSets, TLC

(* ------------------------------ bounds -------------------------------- *)
NumUsers == 2
TicksPerDay == 2
NumDays == 3
MaxDrift == 1
MaxScore == 15
NumHandlers == 2
NumSecrets == 2
NumConcUsers == 1
MaxLimit == 2
MaxRows == 5

(* ------------------------- program constants -------------------------- *)
\* chat ids are renumbered 1..NumUsers; the administrator (ADMIN_ID) is chat
\* id 1.  Time is counted in ticks, TicksPerDay of them to a UTC day, and
\* new Date(0) is tick 0.
DAILY_POINTS == 10
GUESS_POINTS == 5
EPOCH == 0
ADMIN_ID == 1
GUESS_MIN == 1
GUESS_MAX == 10
DEFAULT_LIMIT == 10
NAME_WIDTH == 15
RANK_WIDTH == 4
SCORE_WIDTH == 5
STREAK_WIDTH == 6

Min(a, b) == IF a <= b THEN a ELSE b
ChatIds == 1..NumUsers
Awards == {GUESS_POINTS, DAILY_POINTS}
Secrets == 1..NumSecrets
ConcIds == 1..Min(NumConcUsers, NumUsers)
Guesses == (0..(NumSecrets + 1)) \cup {GUESS_MAX + 1}
StartTime == TicksPerDay
MaxTime == TicksPerDay * (NumDays + 1) - 1

(* -------------------------- JavaScript values -------------------------- *)
Undefined == [t |-> "undefined", v |-> 0]
Null == [t |-> "null", v |-> 0]
NaN == [t |-> "NaN", v |-> 0]
Num(n) == [t |-> "number", v |-> n]
DateV(ms) == [t |-> "date", v |-> ms]

\* if (x), x && ...
Truthy(x) ==
    \/ x.t = "date"
    \/ x.t = "number" /\ x.v # 0

\* ToNumber(x) is NaN
IsNaN(x) == x.t \in {"undefined", "NaN"}

\* a + b on numbers, undefined, null
JsAdd(a, b) == IF IsNaN(a) \/ IsNaN(b) THEN NaN ELSE Num(a.v + b.v)

\* a > b: false as soon as one side converts to NaN
JsGt(a, b) == ~IsNaN(a) /\ ~IsNaN(b) /\ a.v > b.v

(* ------------------------------ UserModel ------------------------------ *)
\* a schema that would also declare the four properties of the streak engine
SchemaPathsDeclaringStreak ==
    {"dailyLastUsed", "gameScore", "gameGuess",
     "totalScore", "currentStreak", "longestStreak", "lastActivityDate"}

\* the paths UserSchema declares.  chatId is the key of the collection;
\* firstName, username and lastInteraction are written by the menu handler
\* only, decide nothing and are left out.
SchemaPaths == {"dailyLastUsed", "gameScore", "gameGuess"}

\* the properties the handlers and the engine read or assign
Fields ==
    {"dailyLastUsed", "gameScore", "gameGuess",
     "totalScore", "currentStreak", "longestStreak", "lastActivityDate"}

\* User.create({chatId, firstName, username}): the schema's defaults
NewUser ==
    [f \in Fields |->
        CASE f = "dailyLastUsed" -> DateV(EPOCH)
          [] f = "gameScore" -> Num(0)
          [] OTHER -> Undefined]

\* the document findOne returns for a stored record
Hydrate(rec) == [f \in Fields |-> IF f \in SchemaPaths THEN rec[f] ELSE Undefined]

\* the properties of the document that the engine reads or assigns
EngineFields == {"gameScore", "totalScore", "currentStreak", "longestStreak", "lastActivityDate"}

\* the document of the engine's findOne; the properties the engine never
\* touches are not kept
EngineDoc(rec) == [f \in Fields |-> IF f \in EngineFields THEN Hydrate(rec)[f] ELSE Undefined]

\* doc.save(): $set of the modified paths of the document
Persist(rec, doc, modified) ==
    [f \in Fields |-> IF f \in modified \cap SchemaPaths THEN doc[f] ELSE rec[f]]

\* User.updateOne(filter, {$set: set}) on a matching record
UpdateOneSet(rec, set) ==
    [f \in Fields |-> IF f \in (DOMAIN set) \cap SchemaPaths THEN set[f] ELSE rec[f]]

(* ------------------------------ clock ---------------------------------- *)
DayOf(t) == t \div TicksPerDay
startOfUTCToday(t) == DayOf(t) * TicksPerDay
startOfUTCYesterday(t) == startOfUTCToday(t) - TicksPerDay

VARIABLES
    clock,       \* the wall clock (Date.now()), in ticks
    store,       \* the users collection: chatId -> record
    lastResult,  \* chatId -> the value updateUserStreakAndScore last returned for it
    reply,       \* the last ctx.reply
    lastAction,  \* history: time of the chat id's last successful engine call since its last reset
    awarded,     \* history: sum of the scoreAward of the chat id's successful calls since its last reset
    baseTotal,   \* history: the totalScore the chat id's record was created with or last reset to
    inflight,    \* handler slot -> the handler's position and documents
    docCount,    \* chatId -> the number of documents of the collection with that chatId
    times,       \* history: now, todayUTC and yesterdayUTC of the last engine call that got that far
    board        \* the last leaderboard query, its outcome and the message made of it

vars == <<clock, store, lastResult, reply, lastAction, awarded, baseTotal, inflight,
          docCount, times, board>>

\* successive reads of the clock by one synchronous stretch of code
ClockReads(n) ==
    {s \in [1..n -> clock..Min(clock + MaxDrift, MaxTime)] :
        \A i \in 1..(n - 1) : s[i] <= s[i + 1]}

(* --------------------------- streakLogic.js ---------------------------- *)
NoResult ==
    [success |-> FALSE, reason |-> "none", newStreak |-> Undefined,
     isNewDay |-> FALSE, scoreAdded |-> 0, message |-> "none"]

NotFoundResult ==
    [success |-> FALSE, reason |-> "User not found", newStreak |-> Undefined,
     isNewDay |-> FALSE, scoreAdded |-> 0, message |-> "none"]

\* line 33
IsSameDay(user, todayUTC) ==
    Truthy(user.lastActivityDate) /\ user.lastActivityDate.v >= todayUTC

\* lines 50-63
StreakBranch(user, yesterdayUTC) ==
    IF Truthy(user.lastActivityDate)
    THEN IF user.lastActivityDate.v >= yesterdayUTC THEN "continued" ELSE "broken"
    ELSE "first"

NewStreak(user, yesterdayUTC) ==
    IF StreakBranch(user, yesterdayUTC) = "continued"
    THEN JsAdd(user.currentStreak, Num(1))
    ELSE Num(1)

\* lines 28-85 on the document `user` that findOne returned:
\* the document after the assignments, its modified paths and the result
StreakStep(user, now, todayUTC, yesterdayUTC, scoreAward) ==
    IF IsSameDay(user, todayUTC)
    THEN [user |-> [user EXCEPT !.totalScore = JsAdd(@, Num(scoreAward))],
          modified |-> {"totalScore"},
          result |-> [success |-> TRUE, reason |-> "none",
                      newStreak |-> user.currentStreak, isNewDay |-> FALSE,
                      scoreAdded |-> scoreAward, message |-> "sameDay"]]
    ELSE LET newStreak == NewStreak(user, yesterdayUTC)
             raise == JsGt(newStreak, user.longestStreak)
         IN [user |-> [user EXCEPT !.currentStreak = newStreak,
                                   !.lastActivityDate = DateV(now),
                                   !.totalScore = JsAdd(@, Num(scoreAward)),
                                   !.gameScore = JsAdd(@, Num(scoreAward)),
                                   !.longestStreak = IF raise THEN newStreak ELSE @],
             modified |-> {"currentStreak", "lastActivityDate", "totalScore", "gameScore"}
                            \cup (IF raise THEN {"longestStreak"} ELSE {}),
             result |-> [success |-> TRUE, reason |-> "none",
                         newStreak |-> newStreak, isNewDay |-> TRUE,
                         scoreAdded |-> scoreAward,
                         message |-> StreakBranch(user, yesterdayUTC)]]

\* the three clock reads of lines 28-30: now, startOfUTCToday(), startOfUTCYesterday()
EngineTimes(reads) ==
    [now |-> reads[1], todayUTC |-> startOfUTCToday(reads[2]),
     yesterdayUTC |-> startOfUTCYesterday(reads[3])]

\* no engine call has read the clock yet
NoTimes == [now |-> -1, todayUTC |-> -1, yesterdayUTC |-> -1]

StepAt(user, reads, scoreAward) ==
    LET t == EngineTimes(reads)
    IN StreakStep(user, t.now, t.todayUTC, t.yesterdayUTC, scoreAward)

Has(u) == u \in DOMAIN store

\* a handler slot: its position, the document of the engine's findOne (doc)
\* until it is saved, and the engine's result
Slots == 1..NumHandlers

Idle ==
    [pc |-> "idle", kind |-> "none", chatId |-> 0, award |-> 0,
     doc |-> NewUser, result |-> NoResult]

\* the cap that keeps the scores of the model finite
ScoreRoom(u, scoreAward) ==
    /\ Has(u) => store[u].gameScore.v + scoreAward <= MaxScore
    /\ awarded[u] + scoreAward <= MaxScore

\* the engine as it would be if it created the record it does not find
UpdatedStoreUpsert(u, reads, scoreAward) ==
    IF ~Has(u)
    THEN [v \in DOMAIN store \cup {u} |-> IF v = u THEN NewUser ELSE store[v]]
    ELSE LET s == StepAt(Hydrate(store[u]), reads, scoreAward)
         IN [store EXCEPT ![u] = Persist(@, s.user, s.modified)]

\* the whole of updateUserStreakAndScore(chatId, scoreAward) without interleaving:
\* the store and the result it leaves
UpdatedStore(u, reads, scoreAward) ==
    IF ~Has(u) THEN store
    ELSE LET s == StepAt(Hydrate(store[u]), reads, scoreAward)
         IN [store EXCEPT ![u] = Persist(@, s.user, s.modified)]

UpdateResult(u, reads, scoreAward) ==
    IF ~Has(u) THEN NotFoundResult
    ELSE StepAt(Hydrate(store[u]), reads, scoreAward).result

\* history of the successful calls
Record(u, res, now) ==
    /\ lastResult' = [lastResult EXCEPT ![u] = res]
    /\ lastAction' = IF res.success THEN [lastAction EXCEPT ![u] = now] ELSE lastAction
    /\ awarded' = IF res.success THEN [awarded EXCEPT ![u] = @ + res.scoreAdded] ELSE awarded

\* updateUserStreakAndScore called on its own (it is exported)
updateUserStreakAndScore(u, scoreAward) ==
    /\ ScoreRoom(u, scoreAward)
    /\ \E reads \in ClockReads(3) :
        /\ store' = UpdatedStore(u, reads, scoreAward)
        /\ Record(u, UpdateResult(u, reads, scoreAward), reads[1])
        /\ times' = IF Has(u) THEN EngineTimes(reads) ELSE times
        /\ clock' = reads[3]
    /\ UNCHANGED <<reply, baseTotal, inflight, docCount, board>>

(* ------------------------------ index.js ------------------------------- *)
Reply(u, msg) == reply' = [to |-> u, msg |-> msg]

\* bot.hears(start|menu): find by id, create when absent
Menu(u) ==
    /\ \E reads \in ClockReads(1) :
        /\ clock' = reads[1]
        /\ IF Has(u)
           THEN store' = [store EXCEPT ![u] = Persist(@, Hydrate(@), {})]
           ELSE store' = [v \in DOMAIN store \cup {u} |->
                            IF v = u THEN NewUser ELSE store[v]]
    /\ Reply(u, "dashboard")
    /\ baseTotal' = IF Has(u) THEN baseTotal
                    ELSE [baseTotal EXCEPT ![u] = store'[u].totalScore]
    /\ docCount' = IF Has(u) THEN docCount ELSE [docCount EXCEPT ![u] = @ + 1]
    /\ UNCHANGED <<lastResult, lastAction, awarded, inflight, times, board>>

\* the $set of the /reset command
ResetSet ==
    [gameScore |-> Num(0), totalScore |-> Num(0), currentStreak |-> Num(0),
     longestStreak |-> Num(0), lastActivityDate |-> Null, dailyLastUsed |-> DateV(EPOCH)]

\* the report a reset would give if it went by the matched document
ResetReportMatched(target, after) ==
    IF Has(target) THEN "has been reset" ELSE "not found or no changes were necessary"

\* index.js lines 256-260: the report goes by result.modifiedCount, which
\* counts the documents whose stored content the update changed
ResetReport(target, after) ==
    IF after # store THEN "has been reset" ELSE "not found or no changes were necessary"

\* bot.hears(/reset) sent by `sender` with target id `target`; target 0 is a
\* command whose id parses to NaN or to 0 (line 237)
Reset(sender, target) ==
    /\ IF sender # ADMIN_ID
       THEN /\ Reply(sender, "Permission denied")
            /\ UNCHANGED <<store, lastAction, awarded, baseTotal>>
       ELSE IF target = 0
       THEN /\ Reply(sender, "Usage: /reset <chatId>")
            /\ UNCHANGED <<store, lastAction, awarded, baseTotal>>
       ELSE /\ store' = IF Has(target)
                        THEN [store EXCEPT ![target] = UpdateOneSet(@, ResetSet)]
                        ELSE store
            /\ Reply(sender, ResetReport(target, store'))
            /\ lastAction' = [lastAction EXCEPT ![target] = -1]
            /\ awarded' = [awarded EXCEPT ![target] = 0]
            /\ baseTotal' = IF Has(target)
                            THEN [baseTotal EXCEPT ![target] = store'[target].totalScore]
                            ELSE baseTotal
    /\ UNCHANGED <<clock, lastResult, inflight, docCount, times, board>>

(* --------------------------- the leaderboard --------------------------- *)
\* strings are sequences of characters
Chars(n, c) == [i \in 1..n |-> c]

\* ctx.from.first_name and ctx.from.username of each chat id, as menu stores
\* them at registration (index.js lines 82-86); no handler changes them later.
\* The empty string is a user without username.
FirstName(u) == IF u = ADMIN_ID THEN Chars(NAME_WIDTH + 1, "a") ELSE <<"b", "o">>
Username(u) == IF u = ADMIN_ID THEN <<>> ELSE <<"b", "o", "b">>

\* str.substring(0, n) and str.padEnd(n)
Substring(str, n) == SubSeq(str, 1, Min(n, Len(str)))
PadEnd(str, n) == IF Len(str) >= n THEN str ELSE str \o Chars(n - Len(str), " ")

\* String(x) of a JavaScript value
Digits(n) ==
    LET RECURSIVE D(_)
        D(k) == IF k < 10 THEN <<ToString(k)>> ELSE D(k \div 10) \o <<ToString(k % 10)>>
    IN IF n < 0 THEN <<"-">> \o D(-n) ELSE D(n)

JsString(x) ==
    CASE x.t = "number" -> Digits(x.v)
      [] x.t = "NaN" -> <<"N", "a", "N">>
      [] x.t = "null" -> <<"n", "u", "l", "l">>
      [] OTHER -> <<"u", "n", "d", "e", "f", "i", "n", "e", "d">>

Arr(rows) == [t |-> "array", v |-> rows]
MissingData == [t |-> "undefined", v |-> <<>>]

\* streakLogic.js lines 108-111: a medal (one emoji, two UTF-16 units) for the
\* ranks 1, 2 and 3, the rank and a dot for the others
RankDisplay(rank) ==
    CASE rank = 1 -> <<"medal", "gold">>
      [] rank = 2 -> <<"medal", "silver">>
      [] rank = 3 -> <<"medal", "bronze">>
      [] OTHER -> Digits(rank) \o <<".">>

\* lines 104-123: the line of the user at position `index` (from 0)
LeaderboardLine(user, index) ==
    LET name == IF user.username # <<>> THEN <<"@">> \o user.username ELSE user.firstName
    IN [rank |-> PadEnd(RankDisplay(index + 1), RANK_WIDTH),
        name |-> PadEnd(Substring(name, NAME_WIDTH), NAME_WIDTH),
        score |-> PadEnd(JsString(user.totalScore), SCORE_WIDTH),
        streak |-> PadEnd(JsString(user.longestStreak), STREAK_WIDTH)]

NoMessage == [text |-> "none", lines |-> <<>>, footer |-> "none"]

EmptyLeaderboardMessage ==
    [text |-> "The leaderboard is empty! Be the first to get a score!",
     lines |-> <<>>, footer |-> "none"]

\* formatLeaderboardMessage as it would be if it printed a table of no rows
formatLeaderboardTableAlways(leaderboardData) ==
    [text |-> "Global Leaderboard (Top 10)",
     lines |-> [i \in 1..Len(leaderboardData.v) |->
                    LeaderboardLine(leaderboardData.v[i], i - 1)],
     footer |-> "Total = Total Score | Streak = Longest Streak"]

\* formatLeaderboardMessage(leaderboardData): the heading, the lines and the
\* closing line of the message
formatLeaderboardMessage(leaderboardData) ==
    IF leaderboardData.t # "array" \/ Len(leaderboardData.v) = 0
    THEN EmptyLeaderboardMessage
    ELSE [text |-> "Global Leaderboard (Top 10)",
          lines |-> [i \in 1..Len(leaderboardData.v) |->
                        LeaderboardLine(leaderboardData.v[i], i - 1)],
          footer |-> "Total = Total Score | Streak = Longest Streak"]

\* the order of MongoDB on the values a sort key can have here: a missing or
\* null field first, then NaN, then the numbers, then the dates
BsonClass(x) ==
    CASE x.t \in {"undefined", "null"} -> 0
      [] x.t = "NaN" -> 1
      [] x.t = "number" -> 2
      [] OTHER -> 3

BsonLt(a, b) ==
    \/ BsonClass(a) < BsonClass(b)
    \/ BsonClass(a) = BsonClass(b) /\ a.t \in {"number", "date"} /\ a.v < b.v

\* record a comes after record b under sort({totalScore: -1, longestStreak: -1,
\* currentStreak: -1}), lines 137-141
KeyLt(a, b) ==
    \/ BsonLt(a.totalScore, b.totalScore)
    \/ /\ a.totalScore = b.totalScore
       /\ \/ BsonLt(a.longestStreak, b.longestStreak)
          \/ /\ a.longestStreak = b.longestStreak
             /\ BsonLt(a.currentStreak, b.currentStreak)

\* .select('firstName username totalScore longestStreak currentStreak') of
\* the record of chat id u; chatId stands for the document's _id
LeaderboardRow(u) ==
    [chatId |-> u, firstName |-> FirstName(u), username |-> Username(u),
     totalScore |-> Hydrate(store[u]).totalScore,
     longestStreak |-> Hydrate(store[u]).longestStreak,
     currentStreak |-> Hydrate(store[u]).currentStreak]

\* the orders in which find({}).sort(...) can return the records: every
\* arrangement of all of them in which no record precedes one of greater key
SortedIds ==
    LET m == Cardinality(DOMAIN store)
    IN {s \in [1..m -> DOMAIN store] :
            /\ \A i, j \in 1..m : i # j => s[i] # s[j]
            /\ \A i, j \in 1..m : i < j => ~KeyLt(store[s[i]], store[s[j]])}

\* the query as it would be without .limit(limit)
QueryUnlimited(limit) ==
    {[i \in 1..Len(s) |-> LeaderboardRow(s[i])] : s \in SortedIds}

\* lines 136-144: find, sort, select, limit
Query(limit) ==
    {[i \in 1..Min(limit, Len(s)) |-> LeaderboardRow(s[i])] : s \in SortedIds}

\* getLeaderboard as it would be if its catch threw the error on
GetLeaderboardRethrowing(limit, fails) ==
    IF fails THEN {[threw |-> TRUE, rows |-> <<>>]}
    ELSE {[threw |-> FALSE, rows |-> rows] : rows \in Query(limit)}

\* lines 134-151: what getLeaderboard(limit) can return; `fails` is the query
\* being rejected by the store, which the catch turns into []
GetLeaderboard(limit, fails) ==
    IF fails THEN {[threw |-> FALSE, rows |-> <<>>]}
    ELSE {[threw |-> FALSE, rows |-> rows] : rows \in Query(limit)}

NoBoard == [limit |-> 0, failed |-> FALSE, data |-> MissingData, message |-> NoMessage]

\* getLeaderboard(limit) called on its own (it is exported)
getLeaderboard(limit, fails) ==
    /\ \E out \in GetLeaderboard(limit, fails) :
        board' = [limit |-> limit, failed |-> fails,
                  data |-> IF out.threw THEN MissingData ELSE Arr(out.rows),
                  message |-> NoMessage]
    /\ UNCHANGED <<clock, store, lastResult, reply, lastAction, awarded, baseTotal,
                   inflight, docCount, times>>

\* bot.hears(leaderboard): getLeaderboard(10), formatLeaderboardMessage, reply;
\* an error thrown on the way is answered by the catch of lines 218-221
Leaderboard(u, fails) ==
    /\ \E out \in GetLeaderboard(DEFAULT_LIMIT, fails) :
        IF out.threw
        THEN /\ board' = [limit |-> DEFAULT_LIMIT, failed |-> fails,
                          data |-> MissingData, message |-> NoMessage]
             /\ Reply(u, "I'm sorry, I couldn't load the leaderboard right now.")
        ELSE /\ board' = [limit |-> DEFAULT_LIMIT, failed |-> fails,
                          data |-> Arr(out.rows),
                          message |-> formatLeaderboardMessage(Arr(out.rows))]
             /\ Reply(u, formatLeaderboardMessage(Arr(out.rows)).text)
    /\ UNCHANGED <<clock, store, lastResult, lastAction, awarded, baseTotal,
                   inflight, docCount, times>>

\* formatLeaderboardMessage applied to the data at hand
Format ==
    /\ board.message = NoMessage
    /\ board' = [board EXCEPT !.message = formatLeaderboardMessage(board.data)]
    /\ UNCHANGED <<clock, store, lastResult, reply, lastAction, awarded, baseTotal,
                   inflight, docCount, times>>

\* time passes
Tick ==
    /\ clock < MaxTime
    /\ clock' = clock + 1
    /\ UNCHANGED <<store, lastResult, reply, lastAction, awarded, baseTotal,
                   inflight, docCount, times, board>>

Init ==
    /\ clock = StartTime
    /\ store = [u \in {} |-> NewUser]
    /\ lastResult = [u \in ChatIds |-> NoResult]
    /\ reply = [to |-> 0, msg |-> "none"]
    /\ lastAction = [u \in ChatIds |-> -1]
    /\ awarded = [u \in ChatIds |-> 0]
    /\ baseTotal = [u \in ChatIds |-> Undefined]
    /\ inflight = [h \in 1..NumHandlers |-> Idle]
    /\ docCount = [u \in ChatIds |-> 0]
    /\ times = NoTimes
    /\ board = NoBoard

Next ==
    \/ \E u \in ChatIds : Menu(u)
    \/ \E u \in ChatIds, a \in Awards : updateUserStreakAndScore(u, a)
    \/ \E s \in ChatIds, u \in ChatIds \cup {0} : Reset(s, u)
    \/ Tick

Spec == Init /\ [][Next]_vars

(* ------------------- index.js, one await at a time --------------------- *)

\* the awards of the engine calls of chat id u that have not saved yet
Pending(u) ==
    LET RECURSIVE Sum(_)
        Sum(h) == IF h = 0 THEN 0
                  ELSE Sum(h - 1) +
                       (IF inflight[h].chatId = u /\ inflight[h].pc \in {"call", "save"}
                        THEN inflight[h].award ELSE 0)
    IN Sum(NumHandlers)

\* the cap that keeps the scores of the model finite, for a handler that starts
HandlerRoom(u, scoreAward) ==
    /\ Has(u) => store[u].gameScore.v + Pending(u) + scoreAward <= MaxScore
    /\ awarded[u] + Pending(u) + scoreAward <= MaxScore

\* bot.hears(daily reward), lines 115-122: findOne of the handler
DailyFind(h, u) ==
    /\ inflight[h].pc = "idle"
    /\ HandlerRoom(u, DAILY_POINTS)
    /\ IF ~Has(u)
       THEN /\ Reply(u, "Please type 'menu' first to register!")
            /\ UNCHANGED inflight
       ELSE /\ inflight' = [inflight EXCEPT ![h] =
                    [Idle EXCEPT !.pc = "call", !.kind = "daily", !.chatId = u,
                                 !.award = DAILY_POINTS]]
            /\ UNCHANGED reply
    /\ UNCHANGED <<clock, store, lastResult, lastAction, awarded, baseTotal,
                   docCount, times, board>>

\* bot.hears(play game): a new secret number is stored
PlayGame(u, secretNumber) ==
    /\ IF ~Has(u)
       THEN /\ Reply(u, "Please type 'menu' first to register!")
            /\ UNCHANGED store
       ELSE /\ store' = [store EXCEPT ![u] =
                    Persist(@, [Hydrate(@) EXCEPT !.gameGuess = Num(secretNumber)],
                            {"gameGuess"})]
            /\ Reply(u, "NEW GAME STARTED")
    /\ UNCHANGED <<clock, lastResult, lastAction, awarded, baseTotal, inflight,
                   docCount, times, board>>

\* bot.hears(guess n), lines 169-190 and 199-203: up to the engine call
GuessFind(h, u, userGuess) ==
    /\ inflight[h].pc = "idle"
    /\ HandlerRoom(u, GUESS_POINTS)
    /\ IF ~Has(u) \/ store[u].gameGuess.t \in {"undefined", "null"}
       THEN Reply(u, "Please start a new game first") /\ UNCHANGED inflight
       ELSE IF userGuess < GUESS_MIN \/ userGuess > GUESS_MAX
       THEN Reply(u, "That's not a valid number!") /\ UNCHANGED inflight
       ELSE IF userGuess = store[u].gameGuess.v
       THEN /\ inflight' = [inflight EXCEPT ![h] =
                    [Idle EXCEPT !.pc = "call", !.kind = "guess", !.chatId = u,
                                 !.award = GUESS_POINTS]]
            /\ UNCHANGED reply
       ELSE IF userGuess < store[u].gameGuess.v
       THEN Reply(u, "Too low!") /\ UNCHANGED inflight
       ELSE Reply(u, "Too high!") /\ UNCHANGED inflight
    /\ UNCHANGED <<clock, store, lastResult, lastAction, awarded, baseTotal,
                   docCount, times, board>>

\* streakLogic.js lines 22-26: the engine's findOne
EngineFind(h) ==
    /\ inflight[h].pc = "call"
    /\ LET u == inflight[h].chatId
       IN IF ~Has(u)
          THEN /\ inflight' = [inflight EXCEPT ![h].pc = "finish",
                                               ![h].result = NotFoundResult]
               /\ lastResult' = [lastResult EXCEPT ![u] = NotFoundResult]
          ELSE /\ inflight' = [inflight EXCEPT ![h].pc = "save",
                                               ![h].doc = EngineDoc(store[u])]
               /\ UNCHANGED lastResult
    /\ UNCHANGED <<clock, store, reply, lastAction, awarded, baseTotal, docCount,
                   times, board>>

\* streakLogic.js lines 28-85 on the document read earlier: compute and save()
EngineSave(h) ==
    /\ inflight[h].pc = "save"
    /\ inflight[h].doc.gameScore.v + inflight[h].award <= MaxScore
    /\ awarded[inflight[h].chatId] + inflight[h].award <= MaxScore
    /\ LET u == inflight[h].chatId
       IN \E reads \in ClockReads(3) :
            LET s == StepAt(inflight[h].doc, reads, inflight[h].award)
            IN /\ store' = [store EXCEPT ![u] = Persist(@, s.user, s.modified)]
               /\ inflight' = [inflight EXCEPT ![h].pc = "finish",
                                               ![h].doc = Idle.doc,
                                               ![h].result = s.result]
               /\ Record(u, s.result, reads[1])
               /\ times' = EngineTimes(reads)
               /\ clock' = reads[3]
    /\ UNCHANGED <<reply, baseTotal, docCount, board>>

\* bot.hears(daily reward), lines 127-145: after the engine call.  The save()
\* of the handler's own document writes its one modified path, dailyLastUsed,
\* whatever the other properties of that (by now stale) document are.
DailyFinish(h) ==
    /\ inflight[h].pc = "finish"
    /\ inflight[h].kind = "daily"
    /\ LET u == inflight[h].chatId
       IN IF inflight[h].result.isNewDay
          THEN \E reads \in ClockReads(1) :
                /\ store' = [store EXCEPT ![u] =
                        Persist(@, [Hydrate(@) EXCEPT !.dailyLastUsed = DateV(reads[1])],
                                {"dailyLastUsed"})]
                /\ clock' = reads[1]
                /\ Reply(u, "Daily Reward Claimed!")
          ELSE /\ Reply(u, "You've already claimed your reward today")
               /\ UNCHANGED <<store, clock>>
    /\ inflight' = [inflight EXCEPT ![h] = Idle]
    /\ UNCHANGED <<lastResult, lastAction, awarded, baseTotal, docCount, times, board>>

\* bot.hears(guess n), lines 192-197: gameGuess = null on the handler's
\* document, which is not saved, then the reply
GuessFinish(h) ==
    /\ inflight[h].pc = "finish"
    /\ inflight[h].kind = "guess"
    /\ Reply(inflight[h].chatId, "CORRECT!")
    /\ inflight' = [inflight EXCEPT ![h] = Idle]
    /\ UNCHANGED <<clock, store, lastResult, lastAction, awarded, baseTotal,
                   docCount, times, board>>

\* the interleavings are explored over the last midnight of the model's time
InitConc ==
    /\ clock = MaxTime - TicksPerDay
    /\ store = [u \in {} |-> NewUser]
    /\ lastResult = [u \in ChatIds |-> NoResult]
    /\ reply = [to |-> 0, msg |-> "none"]
    /\ lastAction = [u \in ChatIds |-> -1]
    /\ awarded = [u \in ChatIds |-> 0]
    /\ baseTotal = [u \in ChatIds |-> Undefined]
    /\ inflight = [h \in Slots |-> Idle]
    /\ docCount = [u \in ChatIds |-> 0]
    /\ times = NoTimes
    /\ board = NoBoard

NextConc ==
    \/ \E u \in ConcIds : Menu(u)
    \/ \E s \in ConcIds, u \in ConcIds \cup {0} : Reset(s, u)
    \/ \E u \in ConcIds, n \in Secrets : PlayGame(u, n)
    \/ \E h \in Slots, u \in ConcIds : DailyFind(h, u)
    \/ \E h \in Slots, u \in ConcIds, g \in Guesses : GuessFind(h, u, g)
    \/ \E h \in Slots : EngineFind(h)
    \/ \E h \in Slots : EngineSave(h)
    \/ \E h \in Slots : DailyFinish(h)
    \/ \E h \in Slots : GuessFinish(h)
    \/ Tick

SpecConc == InitConc /\ [][NextConc]_vars

(* ------------------------ one handler at a time ------------------------- *)
\* no handler is between its first and its last step
Quiet == \A h \in Slots : inflight[h].pc = "idle"

\* the handlers of index.js run to completion one after the other, in the
\* first slot, while time passes; as under SpecConc the chat ids are ConcIds
NextSeq ==
    \/ Quiet /\ \E u \in ConcIds : Menu(u)
    \/ Quiet /\ \E u \in ConcIds : Reset(ADMIN_ID, u)
    \/ Quiet /\ \E u \in ConcIds, n \in Secrets : PlayGame(u, n)
    \/ Quiet /\ \E u \in ConcIds : DailyFind(1, u)
    \/ Quiet /\ \E u \in ConcIds, g \in Guesses : GuessFind(1, u, g)
    \/ EngineFind(1)
    \/ EngineSave(1)
    \/ DailyFinish(1)
    \/ GuessFinish(1)
    \/ Tick

SpecSeq == Init /\ [][NextSeq]_vars

(* -------------------- registration, one await at a time ---------------- *)
\* the collection as it would be without the unique index on chatId
InsertAdmittedAlways(u) == TRUE

\* UserModel.js lines 6-10, unique: true: the index admits a document with
\* chatId u only when the collection has none
InsertAdmitted(u) == docCount[u] = 0

\* bot.hears(start|menu), line 79: findOne of the handler
MenuFind(h, u) ==
    /\ inflight[h].pc = "idle"
    /\ inflight' = [inflight EXCEPT ![h] =
            [Idle EXCEPT !.pc = IF Has(u) THEN "touch" ELSE "create",
                         !.kind = "menu", !.chatId = u,
                         !.doc = IF Has(u) THEN Hydrate(store[u]) ELSE NewUser]]
    /\ UNCHANGED <<clock, store, lastResult, reply, lastAction, awarded, baseTotal,
                   docCount, times, board>>

\* lines 81-87 and 94-109: User.create and the dashboard, or the catch when
\* the insert is rejected as a duplicate.  A second document with the same
\* chatId would leave findOne returning the first.
MenuCreate(h) ==
    /\ inflight[h].pc = "create"
    /\ LET u == inflight[h].chatId
       IN IF InsertAdmitted(u)
          THEN /\ store' = [v \in DOMAIN store \cup {u} |->
                                IF v \in DOMAIN store THEN store[v] ELSE NewUser]
               /\ docCount' = [docCount EXCEPT ![u] = @ + 1]
               /\ baseTotal' = IF Has(u) THEN baseTotal
                               ELSE [baseTotal EXCEPT ![u] = NewUser.totalScore]
               /\ Reply(u, "dashboard")
          ELSE /\ Reply(u, "I'm having trouble initializing right now.")
               /\ UNCHANGED <<store, docCount, baseTotal>>
    /\ inflight' = [inflight EXCEPT ![h] = Idle]
    /\ UNCHANGED <<clock, lastResult, lastAction, awarded, times, board>>

\* lines 88-104: lastInteraction = Date.now(), save() of that one modified
\* path of the document read earlier, and the dashboard
MenuSave(h) ==
    /\ inflight[h].pc = "touch"
    /\ LET u == inflight[h].chatId
       IN /\ \E reads \in ClockReads(1) : clock' = reads[1]
          /\ store' = [store EXCEPT ![u] = Persist(@, inflight[h].doc, {"lastInteraction"})]
          /\ Reply(u, "dashboard")
    /\ inflight' = [inflight EXCEPT ![h] = Idle]
    /\ UNCHANGED <<lastResult, lastAction, awarded, baseTotal, docCount, times, board>>

\* the registrations are explored at the last tick of the model's time
InitReg ==
    /\ clock = MaxTime
    /\ store = [u \in {} |-> NewUser]
    /\ lastResult = [u \in ChatIds |-> NoResult]
    /\ reply = [to |-> 0, msg |-> "none"]
    /\ lastAction = [u \in ChatIds |-> -1]
    /\ awarded = [u \in ChatIds |-> 0]
    /\ baseTotal = [u \in ChatIds |-> Undefined]
    /\ inflight = [h \in Slots |-> Idle]
    /\ docCount = [u \in ChatIds |-> 0]
    /\ times = NoTimes
    /\ board = NoBoard

\* registrations of every chat id, interleaved with each other, with the
\* daily-reward handlers and with resets
NextReg ==
    \/ \E h \in Slots, u \in ChatIds : MenuFind(h, u)
    \/ \E h \in Slots : MenuCreate(h)
    \/ \E h \in Slots : MenuSave(h)
    \/ \E h \in Slots, u \in ChatIds : DailyFind(h, u)
    \/ \E h \in Slots : EngineFind(h)
    \/ \E h \in Slots : EngineSave(h)
    \/ \E h \in Slots : DailyFinish(h)
    \/ \E u \in ChatIds : Reset(ADMIN_ID, u)

SpecReg == InitReg /\ [][NextReg]_vars

(* ---------------------- the leaderboard on its own ---------------------- *)
LimitArgs == (1..MaxLimit) \cup {DEFAULT_LIMIT}

\* registrations, engine calls and leaderboard queries
NextBoard ==
    \/ \E u \in ChatIds : Menu(u)
    \/ \E u \in ChatIds, a \in Awards : updateUserStreakAndScore(u, a)
    \/ \E l \in LimitArgs, fails \in BOOLEAN : getLeaderboard(l, fails)
    \/ \E u \in ChatIds, fails \in BOOLEAN : Leaderboard(u, fails)

\* the queries are explored at the last tick of the model's time
InitBoard == InitReg

SpecBoard == InitBoard /\ [][NextBoard]_vars

\* the documents formatLeaderboardMessage is tried on: one as the store yields
\* it (no score, no streak), one with a score and a streak
SampleRows ==
    {[chatId |-> ADMIN_ID, firstName |-> FirstName(ADMIN_ID), username |-> Username(ADMIN_ID),
      totalScore |-> Undefined, longestStreak |-> Undefined, currentStreak |-> Undefined],
     [chatId |-> NumUsers, firstName |-> FirstName(NumUsers), username |-> Username(NumUsers),
      totalScore |-> Num(MaxScore), longestStreak |-> Num(NumDays),
      currentStreak |-> Num(1)]}

FormatInputs ==
    {MissingData} \cup {Arr(rows) : rows \in UNION {[1..n -> SampleRows] : n \in 0..MaxRows}}

InitFormat ==
    /\ clock = StartTime
    /\ store = [u \in {} |-> NewUser]
    /\ lastResult = [u \in ChatIds |-> NoResult]
    /\ reply = [to |-> 0, msg |-> "none"]
    /\ lastAction = [u \in ChatIds |-> -1]
    /\ awarded = [u \in ChatIds |-> 0]
    /\ baseTotal = [u \in ChatIds |-> Undefined]
    /\ inflight = [h \in Slots |-> Idle]
    /\ docCount = [u \in ChatIds |-> 0]
    /\ times = NoTimes
    /\ board \in {[NoBoard EXCEPT !.data = d] : d \in FormatInputs}

SpecFormat == InitFormat /\ [][Format]_vars

(* ------------------------ claims on the engine ------------------------- *)
\* the comparisons of the claims, evaluated as JavaScript evaluates them:
\* a - b, a >= b, a < b (false as soon as one side converts to NaN), a === b
JsSub(a, b) == IF IsNaN(a) \/ IsNaN(b) THEN NaN ELSE Num(a.v - b.v)
JsGe(a, b) == ~IsNaN(a) /\ ~IsNaN(b) /\ a.v >= b.v
JsLt(a, b) == ~IsNaN(a) /\ ~IsNaN(b) /\ a.v < b.v
JsEq(a, b) == a.t # "NaN" /\ a = b

\* a step that is a call of the engine for chat id u
Called(u) == \E a \in Awards : updateUserStreakAndScore(u, a)

\* the call of this step read its three clock values within one UTC day
CallWithinOneDay(u) == DayOf(lastAction'[u]) = DayOf(clock')

\* C1: for every user, in every state reached by engine calls and resets,
\* longestStreak >= currentStreak (compared as the program compares numbers).
C1_LongestAtLeastCurrent ==
    \A u \in DOMAIN store :
        lastResult[u].success => JsGe(store[u].longestStreak, store[u].currentStreak)

\* C2: a user whose last streak-eligible action (the time lastActivityDate is to
\* hold) lies in UTC day D and who calls the engine at any instant of day D+1
\* gets currentStreak = previous value + 1, lastActivityDate = the call time
\* and isNewDay = TRUE.
C2_NextDayContinues ==
    [][\A u \in ChatIds :
        (/\ Called(u) /\ Has(u) /\ lastAction[u] # -1
         /\ CallWithinOneDay(u)
         /\ DayOf(lastAction'[u]) = DayOf(lastAction[u]) + 1)
        => /\ lastResult'[u].isNewDay
           /\ lastResult'[u].newStreak = JsAdd(lastResult[u].newStreak, Num(1))
           /\ store'[u].currentStreak = lastResult'[u].newStreak
           /\ store'[u].lastActivityDate = DateV(lastAction'[u])]_vars

\* C3: a user whose last streak-eligible action lies in UTC day D and who
\* calls the engine on day D+k, k >= 2, gets currentStreak = 1 and
\* isNewDay = TRUE, and longestStreak is unchanged when it was >= 1.
C3_GapResetsToOne ==
    [][\A u \in ChatIds :
        (/\ Called(u) /\ Has(u) /\ lastAction[u] # -1
         /\ CallWithinOneDay(u)
         /\ DayOf(lastAction'[u]) >= DayOf(lastAction[u]) + 2)
        => /\ lastResult'[u].isNewDay
           /\ lastResult'[u].newStreak = Num(1)
           /\ store'[u].currentStreak = Num(1)
           /\ (JsGe(store[u].longestStreak, Num(1))
                 => store'[u].longestStreak = store[u].longestStreak)]_vars

\* C4: a call for a user whose last streak-eligible action is already within
\* the current UTC day adds exactly scoreAward to totalScore, leaves
\* currentStreak, longestStreak and lastActivityDate unchanged and reports
\* isNewDay = FALSE with newStreak = the unchanged currentStreak.
C4_SameDayRepeat ==
    [][\A u \in ChatIds :
        (/\ Called(u) /\ Has(u) /\ lastAction[u] # -1
         /\ CallWithinOneDay(u)
         /\ DayOf(lastAction'[u]) = DayOf(lastAction[u]))
        => /\ ~lastResult'[u].isNewDay
           /\ JsEq(store'[u].totalScore,
                   JsAdd(store[u].totalScore, Num(lastResult'[u].scoreAdded)))
           /\ store'[u].currentStreak = store[u].currentStreak
           /\ store'[u].longestStreak = store[u].longestStreak
           /\ store'[u].lastActivityDate = store[u].lastActivityDate
           /\ lastResult'[u].newStreak = store[u].currentStreak]_vars

\* C5: the first engine call for a record created by the menu handler leaves
\* the persisted record with currentStreak = 1, longestStreak = 1 and
\* lastActivityDate = the call time, and reports isNewDay = TRUE.
C5_FirstActionStartsAtOne ==
    [][\A u \in ChatIds :
        (Called(u) /\ Has(u) /\ ~lastResult[u].success)
        => /\ lastResult'[u].isNewDay
           /\ store'[u].currentStreak = Num(1)
           /\ store'[u].longestStreak = Num(1)
           /\ store'[u].lastActivityDate = DateV(lastAction'[u])]_vars

\* C7: a call with an id that has no record returns the failure result
\* "User not found", creates no record and leaves every record unchanged.
C7_UnknownUserFails ==
    [][\A u \in ChatIds :
        (Called(u) /\ ~Has(u))
        => /\ lastResult'[u] = NotFoundResult
           /\ store' = store]_vars

\* a failed call has been made for an id without record while another id has one
C7_Witness ==
    \E u \in ChatIds :
        /\ ~Has(u)
        /\ lastResult[u] = NotFoundResult
        /\ DOMAIN store # {}

\* C8: every engine call adds the same amount to totalScore and to gameScore.
C8_ScoresInLockstep ==
    [][\A u \in ChatIds :
        (Called(u) /\ Has(u))
        => JsEq(JsSub(store'[u].totalScore, store[u].totalScore),
                JsSub(store'[u].gameScore, store[u].gameScore))]_vars

\* C9: once a user has completed one successful engine call, currentStreak >= 1
\* in that state and in every later state of the record.
C9_StreakPositiveAfterFirstAction ==
    \A u \in DOMAIN store :
        lastResult[u].success => JsGe(store[u].currentStreak, Num(1))

(* ---------------------- claims on interleavings ------------------------ *)
\* no engine call for chat id u is between its start and its save
CallsCompleted(u) ==
    \A h \in Slots : inflight[h].chatId = u => inflight[h].pc \notin {"call", "save"}

\* C6: for every interleaving of engine calls for one user, once all calls
\* have completed, totalScore = its initial value + the sum of their scoreAward.
C6_NoLostIncrement ==
    \A u \in DOMAIN store :
        (CallsCompleted(u) /\ awarded[u] > 0)
        => JsEq(store[u].totalScore, JsAdd(baseTotal[u], Num(awarded[u])))

\* the same statement for gameScore, the score the schema declares: it holds
\* of every run without interleaving and fails under SpecConc
GameScoreKeepsEveryAward ==
    \A u \in DOMAIN store :
        (CallsCompleted(u) /\ awarded[u] > 0)
        => JsEq(store[u].gameScore, Num(awarded[u]))

AdminReset(t) == Reset(ADMIN_ID, t)

\* C11: the administrator's reset of an existing chat id sets that record's
\* totalScore, gameScore, currentStreak and longestStreak to 0, clears
\* lastActivityDate and the daily-claim marker, keeps the record, and leaves
\* every other record as it was.
C11_ResetClearsRecord ==
    [][\A t \in ChatIds :
        (AdminReset(t) /\ Has(t))
        => /\ t \in DOMAIN store'
           /\ store'[t].totalScore = Num(0)
           /\ store'[t].gameScore = Num(0)
           /\ store'[t].currentStreak = Num(0)
           /\ store'[t].longestStreak = Num(0)
           /\ store'[t].lastActivityDate = Null
           /\ store'[t].dailyLastUsed = DateV(EPOCH)
           /\ \A o \in DOMAIN store : o # t => store'[o] = store[o]]_vars

\* C12 as stated: the reset reports success exactly when a record with the
\* target id exists, whatever the values of its fields.
C12_ReportIffRecordExists ==
    [][\A t \in ChatIds :
        AdminReset(t) => (reply'.msg = "has been reset" <=> Has(t))]_vars

\* C12, amended: the reset reports success exactly when a record with the
\* target id exists and the update changed a stored field of it, that is when
\* its gameScore or its daily-claim marker was not at the reset value.
C12_ReportIffRecordChanged ==
    [][\A t \in ChatIds :
        AdminReset(t)
        => (reply'.msg = "has been reset"
            <=> /\ Has(t)
                /\ \/ store[t].gameScore # Num(0)
                   \/ store[t].dailyLastUsed # DateV(EPOCH))]_vars

\* the administrator has reset a chat id whose record exists and was told that
\* nothing was found or changed
C12_Witness ==
    /\ reply = [to |-> ADMIN_ID, msg |-> "not found or no changes were necessary"]
    /\ \A u \in ChatIds : Has(u)

(* ---------------------- claims on the leaderboard ----------------------- *)
\* a step that is a successful query for at most l records, made directly or
\* by the leaderboard command
Queried(l) ==
    \/ getLeaderboard(l, FALSE)
    \/ l = DEFAULT_LIMIT /\ \E u \in ChatIds : Leaderboard(u, FALSE)

\* the chat ids of the records a query returned
Returned(rows) == {rows[i].chatId : i \in 1..Len(rows)}

C14_FailedQueryIsEmpty ==
    [][/\ \A l \in LimitArgs :
            getLeaderboard(l, TRUE) => board'.data = Arr(<<>>) /\ store' = store
       /\ \A u \in ChatIds :
            Leaderboard(u, TRUE)
            => /\ board'.data = Arr(<<>>)
               /\ reply' = [to |-> u, msg |-> EmptyLeaderboardMessage.text]
               /\ store' = store]_vars

\* the command was answered with the empty-leaderboard message after a failed
\* query although the store has records
C14_Witness ==
    /\ board.failed
    /\ board.limit = DEFAULT_LIMIT
    /\ board.message = EmptyLeaderboardMessage
    /\ reply.msg = EmptyLeaderboardMessage.text
    /\ DOMAIN store = ChatIds

\* the rank marker of line i: a medal for 1, 2, 3 and "i." from 4 on
IsRankMarker(str, i) ==
    IF i <= 3
    THEN Len(str) = RANK_WIDTH /\ str[1] = "medal"
         /\ str[2] = (CASE i = 1 -> "gold" [] i = 2 -> "silver" [] OTHER -> "bronze")
    ELSE Substring(str, Len(Digits(i)) + 1) = Digits(i) \o <<".">>

\* C15: formatLeaderboardMessage returns the fixed empty-leaderboard message
\* for an empty or missing input; otherwise a header, one line per record in
\* input order whose rank marker is a medal for positions 1, 2, 3 and "i." for
\* position i >= 4, and a footer: as many lines as records.
C15_FormatShape ==
    board.message # NoMessage
    => IF board.data.t # "array" \/ board.data.v = <<>>
       THEN board.message = EmptyLeaderboardMessage
       ELSE /\ board.message.text = "Global Leaderboard (Top 10)"
            /\ board.message.footer = "Total = Total Score | Streak = Longest Streak"
            /\ Len(board.message.lines) = Len(board.data.v)
            /\ \A i \in 1..Len(board.data.v) :
                /\ IsRankMarker(board.message.lines[i].rank, i)
                /\ board.message.lines[i].score
                        = PadEnd(JsString(board.data.v[i].totalScore), SCORE_WIDTH)
                /\ board.message.lines[i].name
                        = LeaderboardLine(board.data.v[i], 0).name

\* a list of more than three records has been formatted
C15_Witness ==
    /\ board.message # NoMessage
    /\ Len(board.data.v) > 3
    /\ Len(board.message.lines) = Len(board.data.v)

\* the empty and the missing input have been formatted
C15_WitnessEmpty ==
    /\ board.message = EmptyLeaderboardMessage
    /\ board.data.t # "array"

(* ------------------------ claims on registration ------------------------ *)
\* a step of a registration (start or menu) of chat id u
Registering(u) ==
    \E h \in Slots :
        \/ MenuFind(h, u)
        \/ inflight[h].chatId = u /\ (MenuCreate(h) \/ MenuSave(h))

\* the score, streak and date fields of the data model
KeptFields ==
    {"totalScore", "gameScore", "currentStreak", "longestStreak",
     "lastActivityDate", "dailyLastUsed"}

\* C16: whatever the interleaving of registrations (find, then create when
\* absent), the store holds at most one record per chat id, and a registration
\* for an id that has a record leaves that record's score, streak and date
\* fields as they are.
C16_OneRecordPerId ==
    [][/\ \A u \in ChatIds : docCount'[u] <= 1 /\ (docCount'[u] = 1 <=> u \in DOMAIN store')
       /\ \A u \in DOMAIN store :
            Registering(u) => \A f \in KeptFields : store'[u][f] = store[u][f]]_vars

\* two registrations of one chat id have raced: one created the record, the
\* other's insert was rejected
C16_Witness ==
    \E u \in ChatIds :
        /\ reply = [to |-> u, msg |-> "I'm having trouble initializing right now."]
        /\ docCount[u] = 1
        /\ Has(u)

\* a registration of a chat id with a record and a score has completed
C16_WitnessExisting ==
    \E u \in DOMAIN store :
        /\ reply = [to |-> u, msg |-> "dashboard"]
        /\ store[u].gameScore.v > 0
        /\ store[u].dailyLastUsed.v > EPOCH

(* ------------------- claims on the game and the claim ------------------- *)
\* C17: when the guess handler has processed a correct guess, the persisted
\* gameGuess of the user is null, so that a further guess without a new
\* 'play game' is answered with the start-a-new-game reply and earns nothing.
C17_RoundEndsOnCorrectGuess ==
    [][\A h \in Slots :
        GuessFinish(h)
        => store'[inflight[h].chatId].gameGuess.t \in {"null", "undefined"}]_vars

\* the daily-claim marker of chat id u was set on the UTC day of time t
ClaimedOnDayOf(u, t) ==
    /\ store[u].dailyLastUsed.v > EPOCH
    /\ DayOf(store[u].dailyLastUsed.v) = DayOf(t)

C19_OneClaimPerDay ==
    [][\A h \in Slots :
        (DailyFinish(h) /\ reply'.msg = "Daily Reward Claimed!")
        => ~ClaimedOnDayOf(inflight[h].chatId, clock')]_vars

\* C20: within one call of the engine the three time values are consistent,
\* also when the clock passes midnight between the reads:
\* yesterdayUTC = todayUTC - 24h and todayUTC <= now < todayUTC + 24h.
C20_TimesConsistent ==
    times # NoTimes
    => /\ times.yesterdayUTC = times.todayUTC - TicksPerDay
       /\ times.todayUTC <= times.now
       /\ times.now < times.todayUTC + TicksPerDay

====
